---- MODULE Spec2Model ----
(***************************************************************************)
(* FeedReader: a Telegram bot that stores (userId, url, last_updated) rows  *)
(* in an SQLite table `sources` (db.py), answers /add, /remove and /list    *)
(* (bot.py), and runs the repeating job fetch_feeds (bot.py:118-151).       *)
(*                                                                         *)
(* db.py defines get_all_sources twice (lines 55 and 83).  Python binds the *)
(* name to the later definition, so the job gets what db.py:83-89 returns:  *)
(* the rows of table `sources` of the file 'feeds.db', as tuples.           *)
(***************************************************************************)
EXTENDS Integers, Sequences, FiniteSets, TLC

VARIABLES
    sources,   \* table `sources` of the file FEED_DATABASE: sequence of rows, in rowid order
    now,       \* the wall clock, in ticks (seconds after 2024-12-31 23:59:58)
    feed,      \* what each feed URL currently serves: url -> sequence of entries
    env,       \* the process environment (.env) and the file 'feeds.db', fixed at start
    reply,     \* the messages the last command handler sent to its chat
    job,       \* the fetch_feeds coroutine: where it is suspended, and its locals
    sent,      \* the feed items fetch_feeds has delivered, in order
    log        \* what the poll cycles completed since the last other step logged
               \* (bot.py:151; "" for a cycle that raised nothing); a third
               \* record starts the log afresh

vars == <<sources, now, feed, env, reply, job, sent, log>>

----------------------------------------------------------------------------
(* Bounds and domains *)

MaxTick == 1
MaxRows == 2
EntryCap == 10

Users == {1, 2}
Urls == {"a", "b"}

----------------------------------------------------------------------------
(* Time.  time.strftime("%Y%m%d%H%M%S", t) prints a struct_time as 14       *)
(* digits and int() reads them back as one number.  That number exceeds 32 *)
(* bits, so it is kept as the pair <<YYYYMMDD, HHMMSS>> = hi * 10^6 + lo,   *)
(* compared as the integer it stands for.                                   *)

localtime(t) ==
    LET s == 58 + t
    IN  IF s < 60
        THEN [tm_year |-> 2024, tm_mon |-> 12, tm_mday |-> 31,
              tm_hour |-> 23, tm_min |-> 59, tm_sec |-> s]
        ELSE [tm_year |-> 2025, tm_mon |-> 1, tm_mday |-> 1,
              tm_hour |-> 0, tm_min |-> (s - 60) \div 60, tm_sec |-> (s - 60) % 60]

strftime_int(t) ==
    << t.tm_year * 10000 + t.tm_mon * 100 + t.tm_mday,
       t.tm_hour * 10000 + t.tm_min * 100 + t.tm_sec >>

Zero == <<0, 0>>

Gt(x, y) == x[1] > y[1] \/ (x[1] = y[1] /\ x[2] > y[2])

Ge(x, y) == x = y \/ Gt(x, y)

----------------------------------------------------------------------------
(* Feeds.  An entry is what feedparser hands fetch_feeds: an object that    *)
(* has, or lacks, the attributes published_parsed and updated_parsed (each  *)
(* a struct_time).  A lacking attribute is the empty sequence, a present    *)
(* one the one-element sequence of its struct_time.                         *)

Attr(t) == IF t < 0 THEN <<>> ELSE <<localtime(t)>>

Entry(id, published, updated) ==
    [id |-> id, published_parsed |-> Attr(published), updated_parsed |-> Attr(updated)]

\* Ten old entries, then a new one at position 11.
LongFeed ==
    [k \in 1..11 |-> IF k = 11 THEN Entry(21, 4, -1) ELSE Entry(10 + k, 0, -1)]

\* What the two feeds serve, one record per moment the model can move to:
\* nothing; an unordered feed (old, newest, newer); an entry with no time
\* between two new ones, and a feed with only an old entry; a long feed.
Scenarios ==
    << [a |-> <<>>, b |-> <<>>],
       [a |-> <<Entry(1, 0, -1), Entry(2, 4, -1), Entry(3, 3, -1)>>,
        b |-> <<Entry(4, 2, -1), Entry(8, 3, 4)>>],
       [a |-> <<Entry(2, 4, -1), Entry(5, -1, -1), Entry(7, -1, 3)>>,
        b |-> <<Entry(6, -1, 0)>>],
       [a |-> LongFeed, b |-> <<>>] >>

FeedOf(sc) == [u \in Urls |-> IF u = "a" THEN sc.a ELSE sc.b]

----------------------------------------------------------------------------
(* The environment: .env and the file 'feeds.db' that db.py:84 opens.  When *)
(* FEED_DATABASE names another file, nothing in the program writes          *)
(* 'feeds.db'; it holds whatever it held at start.                          *)

NoFile == [table |-> FALSE, rows |-> <<>>]

Configs ==
    { [FEED_DATABASE |-> "feeds.db", EXCLUDE_WORDS |-> <<"">>, ARCHIVE_POSTS |-> "false",
       feeds_db |-> NoFile],
      [FEED_DATABASE |-> "bot.db", EXCLUDE_WORDS |-> <<>>, ARCHIVE_POSTS |-> "false",
       feeds_db |-> [table |-> TRUE,
                     rows |-> <<[userId |-> 1, url |-> "a", last_updated |-> Zero]>>]],
      [FEED_DATABASE |-> "bot.db", EXCLUDE_WORDS |-> <<"">>, ARCHIVE_POSTS |-> "true",
       feeds_db |-> NoFile] }

----------------------------------------------------------------------------
(* db.py *)

Matches(row, userId, source) == row.url = source /\ row.userId = userId

\* db.py:10-17 with last_updated seeded as 0.
add_feed_source_zero(db, userId, source, t) ==
    Append(db, [userId |-> userId, url |-> source, last_updated |-> Zero])

add_feed_source(db, userId, source, t) ==
    LET dt_date == strftime_int(localtime(t))
    IN  Append(db, [userId |-> userId, url |-> source, last_updated |-> dt_date])

\* db.py:20-31 with the test "more than one row" in place of "some row".
is_already_present_two(db, userId, source) ==
    LET results == SelectSeq(db, LAMBDA row : Matches(row, userId, source))
    IN  Len(results) > 1

\* db.py:20-31 with the query matching on URL alone.
is_already_present_any_user(db, userId, source) ==
    LET results == SelectSeq(db, LAMBDA row : row.url = source)
    IN  Len(results) # 0

is_already_present(db, userId, source) ==
    LET results == SelectSeq(db, LAMBDA row : Matches(row, userId, source))
    IN  Len(results) # 0

\* db.py:34-40 with the DELETE matching on URL alone.
remove_feed_source_any_user(db, userId, source) ==
    SelectSeq(db, LAMBDA row : row.url # source)

remove_feed_source(db, userId, source) ==
    SelectSeq(db, LAMBDA row : ~Matches(row, userId, source))

\* db.py:43-52 with the query not restricted to the user.
get_sources_any_user(db, userId) ==
    [k \in 1..Len(db) |-> db[k].url]

get_sources(db, userId) ==
    LET mine == SelectSeq(db, LAMBDA row : row.userId = userId)
    IN  [k \in 1..Len(mine) |-> mine[k].url]

Row(type, r) ==
    [type |-> type, userId |-> r.userId, url |-> r.url, last_updated |-> r.last_updated]

(* db.py:55-67, the definition that db.py:83 replaces: the rows of          *)
(* FEED_DATABASE as dicts keyed "userId", "url", "last_updated".            *)
get_all_sources_dicts(db, e) ==
    [raised |-> "", rows |-> [k \in 1..Len(db) |-> Row("dict", db[k])]]

(* db.py:83-89, the definition in force: cur.fetchall() on 'feeds.db',      *)
(* a list of tuples; "no such table" raises sqlite3.OperationalError.       *)
get_all_sources(db, e) ==
    LET file == IF e.FEED_DATABASE = "feeds.db"
                THEN [table |-> TRUE, rows |-> db]
                ELSE e.feeds_db
    IN  IF ~file.table
        THEN [raised |-> "OperationalError", rows |-> <<>>]
        ELSE [raised |-> "",
              rows |-> [k \in 1..Len(file.rows) |-> Row("tuple", file.rows[k])]]

update_source_timestamp(db, userId, source, time) ==
    [k \in 1..Len(db) |->
        IF Matches(db[k], userId, source)
        THEN [db[k] EXCEPT !.last_updated = time]
        ELSE db[k]]

----------------------------------------------------------------------------
(* feed.py and archive.py are not among the sources; they are modelled at   *)
(* the boundary the specification gives them.                               *)

\* read_feed(url, filter_words): the entries the feed serves, in feed order.
read_feed(url) == feed[url]

\* format_feed_item(entry): the message text of one entry.
format_feed_item(entry) == entry.id

\* get_feed_info(source): a short description of the feed.
get_feed_info(source) == "feed_info"

----------------------------------------------------------------------------
(* bot.py: the command handlers.  Each runs its database calls before its   *)
(* first await, so its effect on the table is one step.  io says how the    *)
(* outside world answers: infoOk, whether get_feed_info returns; sendOk,    *)
(* whether the send_message calls of the try block succeed.                 *)

CommandIO == [infoOk : BOOLEAN, sendOk : BOOLEAN]

\* remove_feed and list_feeds never call get_feed_info, nor does add_feed
\* unless it inserts.
SendIO == [infoOk : {TRUE}, sendOk : BOOLEAN]

\* What the chat receives: the messages of the try block, or the notice of
\* the except block when a call in the try block raised.
Notice(msgs, ok) == IF ok THEN msgs ELSE <<"An error occurred">>

\* The table is kept to MaxRows rows: an add that would insert needs room.
RoomFor(user, args) ==
    IF args = <<>> THEN TRUE
    ELSE IF is_already_present(sources, user, args[1]) THEN TRUE
    ELSE Len(sources) < MaxRows

add_feed(user, args, io) ==
    /\ RoomFor(user, args)
    /\ IF args = <<>>
       THEN /\ reply' = Notice(<<"Please provide a feed URL.">>, io.sendOk)
            /\ sources' = sources
       ELSE LET source == args[1]
            IN  IF is_already_present(sources, user, source)
                THEN /\ reply' = Notice(<<" already exists.">>, io.sendOk)
                     /\ sources' = sources
                ELSE /\ sources' = add_feed_source(sources, user, source, now)
                     /\ reply' = Notice(<<" added.", get_feed_info(source)>>,
                                        io.infoOk /\ io.sendOk)
    /\ log' = <<>>
    /\ UNCHANGED <<now, feed, env, job, sent>>

remove_feed(user, args, io) ==
    /\ IF args = <<>>
       THEN /\ reply' = Notice(<<"Please provide a feed URL to remove.">>, io.sendOk)
            /\ sources' = sources
       ELSE LET source == args[1]
            IN  IF is_already_present(sources, user, source)
                THEN /\ sources' = remove_feed_source(sources, user, source)
                     /\ reply' = Notice(<<" removed.">>, io.sendOk)
                ELSE /\ reply' = Notice(<<" does not exist.">>, io.sendOk)
                     /\ sources' = sources
    /\ log' = <<>>
    /\ UNCHANGED <<now, feed, env, job, sent>>

list_feeds(userId, io) ==
    /\ LET urls == get_sources(sources, userId)
       IN  reply' = Notice(IF Len(urls) # 0 THEN urls ELSE <<"No sources added yet">>,
                           io.sendOk)
    /\ log' = <<>>
    /\ UNCHANGED <<sources, now, feed, env, job, sent>>

----------------------------------------------------------------------------
(* bot.py:118-151, the repeating job.  fetch_feeds is a coroutine: it runs  *)
(* until it awaits send_message (bot.py:142), where command handlers may    *)
(* run, and goes on when the send has returned or raised.  One step of the  *)
(* model is one such run: from the start, or from the await, to the next    *)
(* await or to the end.  Any exception ends the cycle in the except block   *)
(* of bot.py:150, which logs it.                                            *)

Idle ==
    [pc |-> "idle", sources |-> <<>>, i |-> 0, feeds |-> <<>>,
     entry_index |-> 0, last_post_updated_time |-> Zero]

\* io of one run: the URLs whose read_feed raises, whether the awaited
\* send_message succeeds, whether capture(entry.link) returns.
JobIO == [failFetch : SUBSET Urls, sendOk : BOOLEAN, captureOk : BOOLEAN]

\* A run from the start of a cycle has no send pending to succeed or fail.
JobInputs ==
    IF job.pc = "send" THEN JobIO ELSE {io \in JobIO : io.sendOk /\ io.captureOk}

\* bot.py:150-151 without the except block: what is raised leaves fetch_feeds
\* and the job is not run again.
FinishRaising(m, err) ==
    [m EXCEPT !.job = IF err = "" THEN Idle ELSE [Idle EXCEPT !.pc = "dead"], !.err = err]

\* bot.py:150-151: the except block ends the cycle; so does falling off the loop.
Finish(m, err) == [m EXCEPT !.job = Idle, !.err = err]

\* bot.py:131-137: the entry's time, <<>> when it has neither attribute.
post_updated_time(entry) ==
    IF entry.published_parsed # <<>>
    THEN <<strftime_int(entry.published_parsed[1])>>
    ELSE IF entry.updated_parsed # <<>>
         THEN <<strftime_int(entry.updated_parsed[1])>>
         ELSE <<>>

RECURSIVE RunSource(_, _), RunEntry(_, _), RunEntryUncapped(_, _)

\* bot.py:149, after the entry loop of one source, then the next source.
EndSource(m, io) ==
    LET source == m.job.sources[m.job.i]
        db == update_source_timestamp(m.db, source.userId, source.url,
                                      m.job.last_post_updated_time)
    IN  RunSource([m EXCEPT !.db = db, !.job.i = @ + 1, !.job.feeds = <<>>,
                            !.job.entry_index = 0], io)

\* bot.py:127-144, from the top of the entry loop to the await or the loop's end.
RunEntry(m, io) ==
    LET j == m.job
        source == j.sources[j.i]
        entry_index == j.entry_index + 1
    IN  IF entry_index > Len(j.feeds) THEN EndSource(m, io)
        ELSE IF entry_index > EntryCap THEN EndSource(m, io)
        ELSE LET entry == j.feeds[entry_index]
                 time == post_updated_time(entry)
             IN  IF time = <<>> THEN EndSource(m, io)
                 ELSE LET last_updated_time == source.last_updated
                          last_post == IF Gt(time[1], j.last_post_updated_time)
                                       THEN time[1]
                                       ELSE j.last_post_updated_time
                          m1 == [m EXCEPT !.job.entry_index = entry_index,
                                          !.job.last_post_updated_time = last_post]
                      IN  IF Gt(time[1], last_updated_time)
                          THEN [m1 EXCEPT !.job.pc = "send"]
                          ELSE RunEntry(m1, io)

\* bot.py:127-144 without the test of bot.py:129-130.
RunEntryUncapped(m, io) ==
    LET j == m.job
        source == j.sources[j.i]
        entry_index == j.entry_index + 1
    IN  IF entry_index > Len(j.feeds) THEN EndSource(m, io)
        ELSE LET entry == j.feeds[entry_index]
                 time == post_updated_time(entry)
             IN  IF time = <<>> THEN EndSource(m, io)
                 ELSE LET last_updated_time == source.last_updated
                          last_post == IF Gt(time[1], j.last_post_updated_time)
                                       THEN time[1]
                                       ELSE j.last_post_updated_time
                          m1 == [m EXCEPT !.job.entry_index = entry_index,
                                          !.job.last_post_updated_time = last_post]
                      IN  IF Gt(time[1], last_updated_time)
                          THEN [m1 EXCEPT !.job.pc = "send"]
                          ELSE RunEntryUncapped(m1, io)

\* bot.py:122-126 over rows that take string keys, entering the entry loop
\* without the test of bot.py:129-130.
RunSourceUncapped(m, io) ==
    LET j == m.job
    IN  IF j.i > Len(j.sources) THEN Finish(m, "")
        ELSE LET source == j.sources[j.i]
             IN  IF source.url \in io.failFetch THEN Finish(m, "FetchError")
                 ELSE RunEntryUncapped([m EXCEPT !.job.feeds = read_feed(source.url),
                                                 !.job.entry_index = 0,
                                                 !.job.last_post_updated_time = Zero], io)

\* bot.py:122-126, the top of the source loop.  source["url"] needs a row
\* that takes a string key: a tuple raises TypeError.
RunSource(m, io) ==
    LET j == m.job
    IN  IF j.i > Len(j.sources) THEN Finish(m, "")
        ELSE LET source == j.sources[j.i]
             IN  IF source.type # "dict" THEN Finish(m, "TypeError")
                 ELSE IF source.url \in io.failFetch THEN Finish(m, "FetchError")
                 ELSE RunEntry([m EXCEPT !.job.feeds = read_feed(source.url),
                                         !.job.entry_index = 0,
                                         !.job.last_post_updated_time = Zero], io)

\* bot.py:119-121, the start of a cycle.
Start(m, io) ==
    LET got == get_all_sources(m.db, env)
    IN  IF got.raised # "" THEN Finish(m, got.raised)
        ELSE IF env.EXCLUDE_WORDS = <<>> THEN Finish(m, "AttributeError")
        ELSE RunSource([m EXCEPT !.job.pc = "run",
                                 !.job.sources = got.rows, !.job.i = 1], io)

\* bot.py:142-147, from the await on.
Resume(m, io) ==
    LET j == m.job
        source == j.sources[j.i]
        entry == j.feeds[j.entry_index]
    IN  IF ~io.sendOk THEN Finish(m, "DeliveryError")
        ELSE LET m1 == [m EXCEPT !.sent = Append(@, [chat_id |-> source.userId,
                                                      text |-> format_feed_item(entry)]),
                                 !.job.pc = "run"]
             IN  IF env.ARCHIVE_POSTS = "true" /\ ~io.captureOk
                 THEN Finish(m1, "CaptureError")
                 ELSE RunEntry(m1, io)

fetch_feeds(io) ==
    /\ job.pc \in {"idle", "send"}
    /\ UNCHANGED <<now, feed, env, reply>>
    /\ LET m0 == [job |-> job, db |-> sources, sent |-> sent, err |-> ""]
           m == IF job.pc = "send" THEN Resume(m0, io) ELSE Start(m0, io)
       IN  /\ job' = m.job
           /\ sources' = m.db
           /\ sent' = m.sent
           /\ log' = IF m.job.pc # "idle" THEN log
                     ELSE IF Len(log) < 2 THEN Append(log, m.err)
                     ELSE <<m.err>>

----------------------------------------------------------------------------
(* The world outside: time passes, feeds publish. *)

Tick ==
    /\ now < MaxTick
    /\ now' = now + 1
    /\ log' = <<>>
    /\ UNCHANGED <<sources, feed, env, reply, job, sent>>

FeedChange(k) ==
    /\ feed # FeedOf(Scenarios[k])
    /\ feed' = FeedOf(Scenarios[k])
    /\ log' = <<>>
    /\ UNCHANGED <<sources, now, env, reply, job, sent>>

----------------------------------------------------------------------------

Init ==
    /\ sources = <<>>
    /\ now = 0
    /\ feed = FeedOf(Scenarios[1])
    /\ env \in Configs
    /\ reply = <<>>
    /\ job = Idle
    /\ sent = <<>>
    /\ log = <<>>

Args == {<<>>} \cup {<<u>> : u \in Urls}

AddIO(user, args) ==
    IF args = <<>> THEN SendIO
    ELSE IF is_already_present(sources, user, args[1]) THEN SendIO
    ELSE CommandIO

Next ==
    \/ \E user \in Users, args \in Args :
          \E io \in AddIO(user, args) : add_feed(user, args, io)
    \/ \E user \in Users, args \in Args, io \in SendIO : remove_feed(user, args, io)
    \/ \E user \in Users, io \in SendIO : list_feeds(user, io)
    \/ \E io \in JobInputs : fetch_feeds(io)
    \/ Tick
    \/ \E k \in 1..Len(Scenarios) : FeedChange(k)

Spec == Init /\ [][Next]_vars

\* bot.py:170: run_repeating starts fetch_feeds at every interval, and a
\* suspended fetch_feeds is resumed when its send has returned or raised.
LiveSpec == Spec /\ WF_vars(\E io \in JobInputs : fetch_feeds(io))

----------------------------------------------------------------------------
(* Vocabulary of the claims.  A step is a step of fetch_feeds exactly when  *)
(* it changes job or leaves log non-empty: every other action leaves job    *)
(* alone and empties log.  A poll cycle that reaches no await is one such   *)
(* step, from idle to idle.                                                 *)

FetchStep == log' # <<>> \/ job' # job

\* The job reads the table the commands write, and EXCLUDE_WORDS is set.
Configured == env.FEED_DATABASE = "feeds.db" /\ env.EXCLUDE_WORDS # <<>>

WholeCycle == Configured /\ FetchStep /\ job.pc = "idle" /\ job'.pc = "idle"

Stored(userId, url) ==
    \E k \in 1..Len(sources) : sources[k].userId = userId /\ sources[k].url = url

FeedFor(k) == feed[sources[k].url]

\* Positions of the entries a cycle may consider: the first ten.
Considered(f) == {p \in 1..Len(f) : p <= 10}

HasTime(e) == e.published_parsed # <<>> \/ e.updated_parsed # <<>>

TimeOf(e) ==
    IF e.published_parsed # <<>> THEN strftime_int(e.published_parsed[1])
    ELSE strftime_int(e.updated_parsed[1])

\* Positions of the considered entries of row k's feed that are newer than
\* the row's stored watermark.
Newer(k) ==
    {p \in Considered(FeedFor(k)) :
        /\ HasTime(FeedFor(k)[p])
        /\ Gt(TimeOf(FeedFor(k)[p]), sources[k].last_updated)}

MaxTime(f, ps) ==
    CHOOSE t \in {TimeOf(f[p]) : p \in ps} : \A q \in ps : Ge(t, TimeOf(f[q]))

\* The items this step handed to the transport, and those for row k.
NewlySent == SubSeq(sent', Len(sent) + 1, Len(sent'))

NewlySentTo(k) ==
    {NewlySent[x].text : x \in {y \in 1..Len(NewlySent) :
        /\ NewlySent[y].chat_id = sources[k].userId
        /\ \E p \in 1..Len(FeedFor(k)) : FeedFor(k)[p].id = NewlySent[y].text}}

\* The (userId, url) pairs a table holds.
Pairs(db) == {<<db[k].userId, db[k].url>> : k \in 1..Len(db)}

\* A step that inserted a row: only add_feed_source makes the table longer.
Inserted == Len(sources') = Len(sources) + 1

\* The items this step sent for row k, in the order of sending.
SentSeqTo(k) ==
    LET mine == SelectSeq(NewlySent, LAMBDA s :
                    /\ s.chat_id = sources[k].userId
                    /\ \E p \in 1..Len(FeedFor(k)) : FeedFor(k)[p].id = s.text)
    IN  [x \in 1..Len(mine) |-> mine[x].text]

\* The newer entries of row k's feed, in feed order.
NewerSeq(k) ==
    LET f == FeedFor(k)
        new == SelectSeq(f, LAMBDA e : \E p \in Newer(k) : f[p] = e)
    IN  [x \in 1..Len(new) |-> new[x].id]

RowsKept ==
    /\ Len(sources') = Len(sources)
    /\ \A k \in 1..Len(sources) :
          sources'[k].userId = sources[k].userId /\ sources'[k].url = sources[k].url

----------------------------------------------------------------------------
C3_DeliversExactlyNewer ==
    [][WholeCycle =>
         \A k \in 1..Len(sources) :
            /\ NewlySentTo(k) = {FeedFor(k)[p].id : p \in Newer(k)}
            /\ Newer(k) # {} =>
                  /\ RowsKept
                  /\ sources'[k].last_updated = MaxTime(FeedFor(k), Newer(k))]_vars

(* C4 as claimed: in a cycle where read_feed raises for the URL of one      *)
(* subscription, every subscription with another URL is still processed:    *)
(* its newer entries are delivered and its watermark advanced.              *)
C4_FetchErrorIsPerSource ==
    [][\A io \in JobIO :
          (WholeCycle /\ fetch_feeds(io) /\ io.sendOk /\ io.captureOk) =>
          \A k \in 1..Len(sources) :
             (/\ sources[k].url \notin io.failFetch
              /\ \E h \in 1..Len(sources) : sources[h].url \in io.failFetch
              /\ \A p \in Considered(FeedFor(k)) : HasTime(FeedFor(k)[p])
              /\ Newer(k) # {}) =>
             /\ NewlySentTo(k) = {FeedFor(k)[p].id : p \in Newer(k)}
             /\ RowsKept
             /\ Gt(sources'[k].last_updated, sources[k].last_updated)]_vars

C6_OneRowPerPair ==
    [][/\ sources' # sources =>
             \A x, y \in 1..Len(sources') :
                x < y => ~(sources'[x].userId = sources'[y].userId
                           /\ sources'[x].url = sources'[y].url)
       /\ \A io \in SendIO :
             \/ /\ sources' = sources
                /\ io.sendOk => reply' = <<" already exists.">>
             \/ \A k \in 1..Len(sources) :
                   ~add_feed(sources[k].userId, <<sources[k].url>>, io)]_vars

\* A second /add of a stored pair has been answered.
C6_Witness ==
    /\ reply = <<" already exists.">>
    /\ Len(sources) = MaxRows

(* C7 as claimed, for a cycle in which at most one send fails: of the       *)
(* entries newer than the watermark all but one at least are delivered in   *)
(* the cycle, and the watermark is advanced at its end.                     *)
C7_SendErrorIsPerEntry ==
    [][WholeCycle =>
         \A k \in 1..Len(sources) :
            (/\ \A p \in Considered(FeedFor(k)) : HasTime(FeedFor(k)[p])
             /\ Cardinality(Newer(k)) >= 2) =>
            /\ \E skip \in Newer(k) :
                  {FeedFor(k)[p].id : p \in Newer(k) \ {skip}} \subseteq NewlySentTo(k)
            /\ RowsKept
            /\ Gt(sources'[k].last_updated, sources[k].last_updated)]_vars

(* C8 as claimed: an entry with neither published_parsed nor updated_parsed *)
(* is skipped: it is not delivered, and the newer entries after it among    *)
(* the first ten are delivered in the same cycle.                           *)
C8_TimelessEntrySkipped ==
    [][WholeCycle =>
         \A k \in 1..Len(sources) :
            \A p \in Considered(FeedFor(k)) :
               ~HasTime(FeedFor(k)[p]) =>
               /\ FeedFor(k)[p].id \notin NewlySentTo(k)
               /\ \A q \in Newer(k) : q > p => FeedFor(k)[q].id \in NewlySentTo(k)]_vars

C10_RemoveAbsentLeavesStorage ==
    [][\A io \in SendIO :
          \/ /\ sources' = sources
             /\ io.sendOk => reply' = <<" does not exist.">>
          \/ \A user \in Users, url \in Urls :
                Stored(user, url) \/ ~remove_feed(user, <<url>>, io)]_vars

\* A /remove of an absent pair has been answered while rows are stored.
C10_Witness ==
    /\ reply = <<" does not exist.">>
    /\ Len(sources) >= 1

(* C11: when /add answers "added", the list of that subscriber holds the   *)
(* URL exactly once, and the list of every other subscriber is what it was. *)
C11_AddThenList ==
    [][(Len(sources') = Len(sources) + 1 /\ reply' = <<" added.", "feed_info">>) =>
         LET row == sources'[Len(sources')]
             urls == get_sources(sources', row.userId)
         IN  /\ Cardinality({k \in 1..Len(urls) : urls[k] = row.url}) = 1
             /\ \A other \in Users \ {row.userId} :
                   get_sources(sources', other) = get_sources(sources, other)]_vars

\* An /add has been answered "added" while another subscriber has a row.
C11_Witness ==
    /\ reply = <<" added.", "feed_info">>
    /\ Len(sources) = 2
    /\ sources[1].userId # sources[2].userId

(* C12: whatever a poll cycle raises, it ends and the scheduler runs the    *)
(* next one: cycles complete again and again, for ever.                     *)
C12_CyclesGoOn ==
    []<><<FetchStep /\ job'.pc = "idle">>_vars

\* A cycle that failed has been followed by another cycle.
C12_Witness ==
    /\ Len(log) = 2
    /\ log[1] \in {"OperationalError", "AttributeError", "TypeError"}
    /\ env.FEED_DATABASE # "feeds.db"

(* C13 as claimed: a poll cycle that starts takes as its snapshot the rows  *)
(* of the table the commands write, every stored row among them, and goes   *)
(* on to process them.                                                      *)
C13_SnapshotIsTheStore ==
    [][(FetchStep /\ job.pc = "idle" /\ env.EXCLUDE_WORDS # <<>> /\ sources # <<>>) =>
         LET got == get_all_sources(sources, env)
         IN  /\ got.raised = ""
             /\ \A k \in 1..Len(sources) : \E r \in 1..Len(got.rows) :
                   /\ got.rows[r].userId = sources[k].userId
                   /\ got.rows[r].url = sources[k].url
                   /\ got.rows[r].last_updated = sources[k].last_updated
             /\ job'.pc = "idle" => log'[Len(log')] # "TypeError"]_vars

C18_FailedAddStoresNothing ==
    [][reply' = <<"An error occurred">> => ~Inserted]_vars

====
